---- MODULE Spec2Model ----
(***************************************************************************)
(* Model of src/mcp_siteflow.py: the SiteflowAPI client (bearer-token      *)
(* session, six resource operations) and the MCP tool wrappers around it.  *)
(*                                                                         *)
(* Python values are tagged records, so that None, strings, lists and      *)
(* dicts stay distinguishable and truthiness is computed as Python does.   *)
(* A Python dict with string keys is a TLA+ record; "key in d" is          *)
(* "key \in DOMAIN d".  The HTTP server is the environment: every request  *)
(* receives a response chosen nondeterministically (or a transport error). *)
(***************************************************************************)
EXTENDS Integers, Sequences, FiniteSets, TLC

VARIABLES
    access_token,   \* api.access_token (SiteflowAPI instance field)
    pc,             \* "idle": waiting for a call; "done": a call has just completed
    call,           \* the call just completed: layer, operation name, arguments
    token_before,   \* api.access_token when that call started
    sent,           \* the HTTP requests that call sent, in order, each with its response
    outcome         \* how that call ended: a returned value or a raised exception

vars == <<access_token, pc, call, token_before, sent, outcome>>

----------------------------------------------------------------------------
(* Python values *)

None == [type |-> "NoneType"]
PyStr(s) == [type |-> "str", s |-> s]
PyInt(n) == [type |-> "int", n |-> n]
PyList(items) == [type |-> "list", items |-> items]
PyDict(d) == [type |-> "dict", d |-> d]
PyBool(b) == [type |-> "bool", b |-> b]
EmptyDict == PyDict(<<>>)

\* Python truthiness ("if x:", "not x")
Truthy(v) ==
    CASE v.type = "NoneType" -> FALSE
      [] v.type = "str" -> v.s # ""
      [] v.type = "int" -> v.n # 0
      [] v.type = "bool" -> v.b
      [] v.type = "list" -> v.items # <<>>
      [] v.type = "dict" -> DOMAIN v.d # {}

\* dict.get(key, default) on a value known to be a dict
DictGet(v, key, default) == IF key \in DOMAIN v.d THEN v.d[key] ELSE default

\* Does value.get(...) raise AttributeError?  (only dict has .get)
HasGet(v) == v.type = "dict"

----------------------------------------------------------------------------
(* Configuration read by SiteflowAPI.__init__ *)

server_url_parts == <<"https://", "poc-ai.siteflow.co">>
client_id == "client-id"
client_secret == "client-secret"
project_id == "proj1"
family_id == PyStr("fam-env")

RECURSIVE Join(_)
Join(parts) == IF parts = <<>> THEN "" ELSE Head(parts) \o Join(Tail(parts))

\* str.replace(old, '') on a string held as its parts
Replace(parts, old) == SelectSeq(parts, LAMBDA p : p # old)

server_url == Join(server_url_parts)

----------------------------------------------------------------------------
(* The server: responses of the environment *)

TransportError == [raised |-> TRUE, exc |-> "ConnectionError"]
Http(status, body) == [raised |-> FALSE, status_code |-> status, body |-> body]

\* A body is its raw text and what response.json() makes of it
\* ("invalid": response.json() raises).
Invalid == [type |-> "invalid"]
Body(text, json) == [text |-> text, json |-> json]

EmptyBody == Body("", Invalid)
NullBody == Body("null", None)
EmptyListBody == Body("[]", PyList(<<>>))
EmptyObjBody == Body("{}", EmptyDict)
TokenBody(t) == Body("{accessToken}", PyDict([accessToken |-> t]))
DataBody(v) == Body("{data}", PyDict([data |-> v]))
IdBody == Body("{identifier}", PyDict([identifier |-> PyStr("id1")]))
IdListBody == Body("[{identifier}]", PyList(<<PyDict([identifier |-> PyStr("id1")])>>))
MessageBody == Body("{message}", PyDict([message |-> PyStr("name required")]))

JsonRaises(resp) == resp.body.json.type = "invalid"

\* A status check that lets 5xx through
RaiseForStatusRaises_4xxOnly(resp) == resp.status_code >= 400 /\ resp.status_code < 500

\* requests' Response.raise_for_status(): HTTPError for 4xx and 5xx only
RaiseForStatusRaises(resp) == resp.status_code >= 400 /\ resp.status_code < 600

----------------------------------------------------------------------------
(* Session: headers and authentication *)

\* Headers that test the token against None only, so that an empty token
\* string is sent as a bearer too
get_headers_NoneCheck(tok) ==
    LET domain == Join(Replace(Replace(server_url_parts, "https://"), "http://"))
        headers == ("accept" :> "application/json")
                   @@ ("Content-Type" :> "application/json")
                   @@ ("User-Agent" :> "Mozilla/5.0")
                   @@ ("Host" :> domain)
                   @@ ("Origin" :> server_url)
                   @@ ("Referer" :> server_url)
    IN  IF tok # None
        THEN headers @@ ("Authorization" :> ("Bearer " \o tok.s))
        ELSE headers

get_headers(tok) ==
    LET domain == Join(Replace(Replace(server_url_parts, "https://"), "http://"))
        headers == ("accept" :> "application/json")
                   @@ ("Content-Type" :> "application/json")
                   @@ ("User-Agent" :> "Mozilla/5.0")
                   @@ ("Host" :> domain)
                   @@ ("Origin" :> server_url)
                   @@ ("Referer" :> server_url)
    IN  IF Truthy(tok)
        THEN headers @@ ("Authorization" :> ("Bearer " \o tok.s))
        ELSE headers

\* One HTTP request as handed to requests.get/post/patch, with the response
\* it received.  kwargs is [json |-> payload] or [params |-> params] or <<>>.
Request(endpoint, method, url, headers, kwargs, resp) ==
    [endpoint |-> endpoint, method |-> method, url |-> url,
     headers |-> headers, kwargs |-> kwargs, response |-> resp]

\* The result of running a method: the token afterwards, what it returned,
\* the requests it sent.
Ran(tok, ret, reqs) == [access_token |-> tok, ret |-> ret, sent |-> reqs]

authenticate(tok, resp) ==
    LET url == server_url \o "/ext/api/2.0/authenticate"
        headers == get_headers(tok)
        payload == [clientId |-> client_id, clientSecret |-> client_secret]
        req == Request("authenticate", "POST", url, headers, [json |-> payload], resp)
    IN  IF resp.raised
        THEN Ran(tok, FALSE, <<req>>)
        ELSE IF resp.status_code = 200
             THEN IF JsonRaises(resp) \/ ~HasGet(resp.body.json)
                  THEN Ran(tok, FALSE, <<req>>)
                  ELSE Ran(DictGet(resp.body.json, "accessToken", None), TRUE, <<req>>)
             ELSE Ran(tok, FALSE, <<req>>)

\* A guard that tries authenticate a second time when the first attempt fails
EnsureAuthenticated_Retry(tok, authResp) ==
    IF ~Truthy(tok)
    THEN IF authenticate(tok, authResp).ret
         THEN authenticate(tok, authResp)
         ELSE Ran(tok, FALSE,
                  authenticate(tok, authResp).sent \o authenticate(tok, authResp).sent)
    ELSE Ran(tok, TRUE, <<>>)

\* "not self.access_token and not self.authenticate()": authenticate runs only
\* when the token is falsy.  ret = FALSE means the operation returns at once.
EnsureAuthenticated(tok, authResp) ==
    IF ~Truthy(tok)
    THEN authenticate(tok, authResp)
    ELSE Ran(tok, TRUE, <<>>)

\* A dispatch that sends the request even though the guard failed
Dispatch_NoShortCircuit(e, early, endpoint, method, url, kwargs, resp, ret) ==
    Ran(e.access_token, ret,
        e.sent \o <<Request(endpoint, method, url, get_headers(e.access_token),
                            kwargs, resp)>>)

\* A dispatch that drops the token when the server answers 401
Dispatch_ClearOn401(e, early, endpoint, method, url, kwargs, resp, ret) ==
    IF ~e.ret
    THEN Ran(e.access_token, early, e.sent)
    ELSE Ran(IF ~resp.raised /\ resp.status_code = 401 THEN None ELSE e.access_token,
             ret,
             e.sent \o <<Request(endpoint, method, url, get_headers(e.access_token),
                                 kwargs, resp)>>)

\* The shape shared by the six resource operations, once the authentication
\* guard e has run: return early when it failed, otherwise build the headers
\* from the token now held, send the one request and return ret.
Dispatch(e, early, endpoint, method, url, kwargs, resp, ret) ==
    IF ~e.ret
    THEN Ran(e.access_token, early, e.sent)
    ELSE Ran(e.access_token, ret,
             e.sent \o <<Request(endpoint, method, url, get_headers(e.access_token),
                                 kwargs, resp)>>)

----------------------------------------------------------------------------
(* Read operations *)

\* "try: ...; response.raise_for_status(); return response.json().get("data", [])
\*  except Exception: return []"
ListResult(resp) ==
    IF resp.raised THEN PyList(<<>>)
    ELSE IF RaiseForStatusRaises(resp) THEN PyList(<<>>)
    ELSE IF JsonRaises(resp) \/ ~HasGet(resp.body.json) THEN PyList(<<>>)
    ELSE DictGet(resp.body.json, "data", PyList(<<>>))

get_flows(tok, authResp, resp) ==
    Dispatch(EnsureAuthenticated(tok, authResp), PyList(<<>>),
             "flows", "GET", server_url \o "/ext/api/2.0/flows",
             [params |-> [projectId |-> project_id]], resp, ListResult(resp))

get_flow_phases(tok, flow_id, authResp, resp) ==
    Dispatch(EnsureAuthenticated(tok, authResp), PyList(<<>>),
             "phases", "GET", server_url \o "/ext/api/2.0/flows/" \o flow_id \o "/phases",
             <<>>, resp, ListResult(resp))

----------------------------------------------------------------------------
(* Mutating operations *)

AuthenticationFailed == [success |-> FALSE, error |-> "Authentication failed"]

\* json.dumps(x): the serialized text of x, kept as a value distinct from x
JsonDumps(x) == [json_dumps |-> x]

\* error_details = response.text, replaced by json.dumps(response.json())
\* when the body decodes
ErrorDetails(resp) ==
    IF JsonRaises(resp) THEN [text |-> resp.body.text]
    ELSE JsonDumps(resp.body.json)

\* An API-error result that leaves the request URL out
ApiError_NoUrl(url, payload, resp) ==
    [success |-> FALSE,
     error |-> "API error: " \o ToString(resp.status_code),
     details |-> ErrorDetails(resp),
     request_payload |-> JsonDumps(payload)]

ApiError(url, payload, resp) ==
    [success |-> FALSE,
     error |-> "API error: " \o ToString(resp.status_code),
     details |-> ErrorDetails(resp),
     request_payload |-> JsonDumps(payload),
     request_url |-> url]

\* "except Exception as e: return {"success": False, "error": str(e)}"
Caught(exc) == [success |-> FALSE, error |-> exc]

\* The try block shared by add_phase_to_flow, add_step_to_phase and create_flow
ClassifyCreate(url, payload, resp) ==
    IF resp.raised THEN Caught(resp.exc)
    ELSE IF resp.status_code \in {200, 201}
         THEN IF JsonRaises(resp)
              THEN Caught("JSONDecodeError")
              ELSE [success |-> TRUE, data |-> resp.body.json]
         ELSE ApiError(url, payload, resp)

\* The try block of update_step_text
ClassifyUpdate(url, payload, resp) ==
    IF resp.raised THEN Caught(resp.exc)
    ELSE IF resp.status_code \in {200, 201, 204}
         THEN IF JsonRaises(resp)
              THEN [success |-> TRUE, data |-> EmptyDict]
              ELSE [success |-> TRUE, data |-> resp.body.json]
         ELSE ApiError(url, payload, resp)

\* A dict entry set only under a condition
When(cond, entries) == IF cond THEN entries ELSE <<>>

\* str(ordering_number)
OrderingString(ordering_number) == ToString(ordering_number.n)

\* A phase payload that tests the ordering number for truth, so that 0 is
\* treated as not given
PhasePayload_TruthyOrdering(phase_name, phase_description, ordering_number, auto_advance, can_be_skipped) ==
    [data |-> <<
        [name |-> phase_name, managementProperties |-> [isEnabled |-> TRUE]]
        @@ When(Truthy(phase_description), [internalInformation |-> phase_description])
        @@ When(Truthy(ordering_number),
                [customOrderingNumber |-> OrderingString(ordering_number)])
        @@ When(auto_advance \/ can_be_skipped,
                [usageProperties |->
                    When(auto_advance, [autoAdvance |-> auto_advance])
                    @@ When(can_be_skipped, [canBeSkipped |-> can_be_skipped])])
    >>]

PhasePayload(phase_name, phase_description, ordering_number, auto_advance, can_be_skipped) ==
    [data |-> <<
        [name |-> phase_name, managementProperties |-> [isEnabled |-> TRUE]]
        @@ When(Truthy(phase_description), [internalInformation |-> phase_description])
        @@ When(ordering_number # None,
                [customOrderingNumber |-> OrderingString(ordering_number)])
        @@ When(auto_advance \/ can_be_skipped,
                [usageProperties |->
                    When(auto_advance, [autoAdvance |-> auto_advance])
                    @@ When(can_be_skipped, [canBeSkipped |-> can_be_skipped])])
    >>]

PostCreate(e, endpoint, url, payload, resp) ==
    Dispatch(e, AuthenticationFailed, endpoint, "POST", url, [json |-> payload], resp,
             ClassifyCreate(url, payload, resp))

add_phase_to_flow(tok, flow_id, phase_name, phase_description, ordering_number, auto_advance, can_be_skipped, authResp, resp) ==
    PostCreate(EnsureAuthenticated(tok, authResp), "add-phases",
               server_url \o "/ext/api/2.0/flows/" \o flow_id \o "/add-phases",
               PhasePayload(phase_name, phase_description, ordering_number,
                            auto_advance, can_be_skipped),
               resp)

VALID_THEMATIC_BLOCKS == {"INSTRUCTION", "CHECKLIST", "FORM", "SIGNATURE"}

\* "[block for block in enabled_thematic_blocks if block not in VALID_THEMATIC_BLOCKS]"
\* under "if enabled_thematic_blocks:"
InvalidBlocks(enabled_thematic_blocks) ==
    IF Truthy(enabled_thematic_blocks)
    THEN SelectSeq(enabled_thematic_blocks.items,
                   LAMBDA block : block \notin VALID_THEMATIC_BLOCKS)
    ELSE <<>>

InvalidThematicBlocks(invalid_blocks) ==
    [success |-> FALSE,
     error |-> "Invalid thematic block types",
     details |-> [invalid |-> invalid_blocks, valid |-> VALID_THEMATIC_BLOCKS]]

StepPayload(step_name, step_description, ordering_number, enabled_thematic_blocks) ==
    [data |-> <<
        [name |-> step_name,
         managementProperties |->
            [listEnabledThematicBlocks |->
                IF Truthy(enabled_thematic_blocks)
                THEN enabled_thematic_blocks.items
                ELSE <<"INSTRUCTION">>]]
        @@ When(Truthy(step_description), [internalInformation |-> step_description])
        @@ When(ordering_number # None,
                [customOrderingNumber |-> OrderingString(ordering_number)])
    >>]

\* add_step_to_phase after its authentication guard e: the thematic blocks are
\* validated here, after the guard and before the request
AddStepAuthenticated(e, url, invalid_blocks, payload, resp) ==
    IF e.ret /\ invalid_blocks # <<>>
    THEN Ran(e.access_token, InvalidThematicBlocks(invalid_blocks), e.sent)
    ELSE PostCreate(e, "add-steps", url, payload, resp)

add_step_to_phase(tok, phase_id, step_name, step_description, ordering_number, enabled_thematic_blocks, authResp, resp) ==
    AddStepAuthenticated(
        EnsureAuthenticated(tok, authResp),
        server_url \o "/ext/api/2.0/phases/" \o phase_id \o "/add-steps",
        InvalidBlocks(enabled_thematic_blocks),
        StepPayload(step_name, step_description, ordering_number, enabled_thematic_blocks),
        resp)

\* "if family_id is None and self.family_id: family_id = self.family_id"
FamilyOrDefault(flow_family_id) ==
    IF flow_family_id = None /\ Truthy(family_id) THEN family_id ELSE flow_family_id

FlowPayload(flow_name, flow_project_id, flow_type, description, category_id, fam, family_custom_code, reference) ==
    [data |-> <<
        [flowProperties |->
            [name |-> flow_name, type |-> flow_type]
            @@ When(Truthy(description), [description |-> description])
            @@ When(Truthy(category_id), [categoryIdentifier |-> category_id])
            @@ When(Truthy(fam), [familyIdentifier |-> fam])
            @@ When(Truthy(family_custom_code), [familyCustomCode |-> family_custom_code])
            @@ When(Truthy(reference), [reference |-> reference]),
         projectIdentifier |-> flow_project_id]
    >>]

create_flow(tok, flow_name, flow_project_id, flow_type, description, category_id, flow_family_id, family_custom_code, reference, authResp, resp) ==
    PostCreate(EnsureAuthenticated(tok, authResp), "bulk-create",
               server_url \o "/ext/api/2.0/flows/bulk-create",
               FlowPayload(flow_name, flow_project_id, flow_type, description, category_id,
                           FamilyOrDefault(flow_family_id), family_custom_code, reference),
               resp)

PatchText(e, url, payload, resp) ==
    Dispatch(e, AuthenticationFailed, "update-text-block", "PATCH", url,
             [json |-> payload], resp, ClassifyUpdate(url, payload, resp))

update_step_text(tok, step_id, text_content, authResp, resp) ==
    PatchText(EnsureAuthenticated(tok, authResp),
              server_url \o "/ext/api/2.0/steps/" \o step_id \o "/update-text-block",
              [data |-> text_content], resp)

----------------------------------------------------------------------------
(* MCP tools: argument conversion, the client call, the formatted text *)

Return(v) == [kind |-> "return", value |-> v]
Raise(exc) == [kind |-> "raise", exc |-> exc]

\* A tool that ran the client call r and ended with outcome o
Tool(r, o) == Ran(r.access_token, o, r.sent)

\* Largest ordering number tried
MaxOrdering == 5

\* int(s): the integer whose decimal form is s; ValueError when there is none
IntParses(s) == \E n \in -MaxOrdering..MaxOrdering : ToString(n) = s
ParseInt(s) == CHOOSE n \in -MaxOrdering..MaxOrdering : ToString(n) = s

\* str.lower() on the flag strings tried
Lower(s) ==
    CASE s = "True" -> "true"
      [] s = "TRUE" -> "true"
      [] s = "False" -> "false"
      [] OTHER -> s

\* "isinstance(flag, str)" then "flag.lower() == 'true'", else the flag itself
ToFlag(v) == IF v.type = "str" THEN Lower(v.s) = "true" ELSE v.b

\* result.get(key, default) on a result dict
ResultGet(result, key, default) == IF key \in DOMAIN result THEN result[key] ELSE default

\* The else branch shared by the four mutating tools
FailureText(prefix, result) ==
    [text |-> prefix,
     error |-> ResultGet(result, "error", "Unknown error"),
     details |-> ResultGet(result, "details", [text |-> "No details available"]),
     debug_info |->
        When("request_payload" \in DOMAIN result,
             [request_payload |-> result.request_payload])
        @@ When("request_url" \in DOMAIN result,
                [request_url |-> result.request_url])]

AuthenticateText(a) ==
    Tool(a, Return(IF a.ret
                   THEN [text |-> "Authentication successful!", project_id |-> project_id]
                   ELSE [text |-> "Authentication failed. Please check your credentials."]))

tool_authenticate(tok, resp) == AuthenticateText(authenticate(tok, resp))

\* "for i, x in enumerate(v, 1): x.get(...)" raises unless v is a list of dicts
IterGetRaises(v) ==
    \/ v.type # "list"
    \/ \E i \in DOMAIN v.items : ~HasGet(v.items[i])

IterGetError(v) == IF v.type \in {"int", "bool"} THEN "TypeError" ELSE "AttributeError"

FlowLine(flow) ==
    [identifier |-> DictGet(flow, "identifier", PyStr("Unknown")),
     name |-> DictGet(flow, "name", PyStr("Unnamed Flow")),
     type |-> DictGet(flow, "type", PyStr("Unknown Type"))]

FlowsText(r) ==
    IF ~Truthy(r.ret)
    THEN Tool(r, Return([text |-> "No flows found for project ID",
                         project_id |-> project_id]))
    ELSE IF IterGetRaises(r.ret)
    THEN Tool(r, Raise(IterGetError(r.ret)))
    ELSE Tool(r, Return([text |-> "=== Available Flows for Project",
                         project_id |-> project_id,
                         lines |-> [i \in DOMAIN r.ret.items |-> FlowLine(r.ret.items[i])]]))

tool_get_flows(tok, authResp, resp) == FlowsText(get_flows(tok, authResp, resp))

\* mgmt = phase["managementProperties"]; mgmt.get(...) raises unless mgmt is a dict
PhaseLineRaises(phase) ==
    /\ "managementProperties" \in DOMAIN phase.d
    /\ ~HasGet(phase.d["managementProperties"])

\* The lines written for one phase (the properties, actions and transitions
\* blocks read keys that no response of ListBodies carries)
PhaseLine(phase) ==
    [identifier |-> DictGet(phase, "identifier", PyStr("Unknown")),
     name |-> DictGet(phase, "name", PyStr("Unnamed Phase")),
     orderingNumber |-> DictGet(phase, "orderingNumber", PyStr("Unknown"))]
    @@ When("managementProperties" \in DOMAIN phase.d,
            [isEnabled |-> DictGet(phase.d["managementProperties"],
                                   "isEnabled", PyBool(FALSE))])

PhasesText(r, flow_id) ==
    IF ~Truthy(r.ret)
    THEN Tool(r, Return([text |-> "No phases found for flow ID", flow_id |-> flow_id,
                         project_id |-> project_id]))
    ELSE IF IterGetRaises(r.ret)
    THEN Tool(r, Raise(IterGetError(r.ret)))
    ELSE IF \E i \in DOMAIN r.ret.items : PhaseLineRaises(r.ret.items[i])
    THEN Tool(r, Raise("AttributeError"))
    ELSE Tool(r, Return([text |-> "=== Flow Phases for Flow", flow_id |-> flow_id,
                         project_id |-> project_id,
                         lines |-> [i \in DOMAIN r.ret.items |-> PhaseLine(r.ret.items[i])]]))

tool_get_flow_phases(tok, flow_id, authResp, resp) ==
    PhasesText(get_flow_phases(tok, flow_id, authResp, resp), flow_id)

\* "if ordering_number is not None and isinstance(ordering_number, str)":
\* does int(ordering_number) raise ValueError?
OrderingInvalid(ordering_number) ==
    /\ ordering_number # None
    /\ ordering_number.type = "str"
    /\ ~IntParses(ordering_number.s)

ConvertOrdering(ordering_number) ==
    IF ordering_number # None /\ ordering_number.type = "str"
    THEN PyInt(ParseInt(ordering_number.s))
    ELSE ordering_number

OrderingError(tok, ordering_number) ==
    Ran(tok,
        Return([text |-> "Error: ordering_number must be an integer, got",
                got |-> ordering_number.s]),
        <<>>)

\* result.get("data", {}).get("identifier", "Unknown"): AttributeError unless
\* the data is a dict
IdentifierRaises(result) == ~HasGet(ResultGet(result, "data", EmptyDict))
Identifier(result) ==
    DictGet(ResultGet(result, "data", EmptyDict), "identifier", PyStr("Unknown"))

AddPhaseText(r, flow_id, phase_name, auto_advance, can_be_skipped) ==
    IF r.ret.success
    THEN IF IdentifierRaises(r.ret)
         THEN Tool(r, Raise("AttributeError"))
         ELSE Tool(r, Return([text |-> "Successfully added phase",
                              phase_name |-> phase_name, flow_id |-> flow_id,
                              phase_id |-> Identifier(r.ret),
                              auto_advance |-> auto_advance,
                              can_be_skipped |-> can_be_skipped]))
    ELSE Tool(r, Return(FailureText("Failed to add phase to flow", r.ret)))

tool_add_phase_to_flow(tok, flow_id, phase_name, phase_description, ordering_number, auto_advance, can_be_skipped, authResp, resp) ==
    IF OrderingInvalid(ordering_number)
    THEN OrderingError(tok, ordering_number)
    ELSE AddPhaseText(
            add_phase_to_flow(tok, flow_id, phase_name, phase_description,
                              ConvertOrdering(ordering_number), ToFlag(auto_advance),
                              ToFlag(can_be_skipped), authResp, resp),
            flow_id, phase_name, ToFlag(auto_advance), ToFlag(can_be_skipped))

\* "[block.strip().upper() for block in enabled_thematic_blocks.split(',')]"
\* on the argument strings tried
SplitStripUpper(s) ==
    CASE s = "INSTRUCTION" -> <<"INSTRUCTION">>
      [] s = "checklist, form" -> <<"CHECKLIST", "FORM">>
      [] s = "BOGUS" -> <<"BOGUS">>
      [] s = "instruction,bogus" -> <<"INSTRUCTION", "BOGUS">>

thematic_blocks_list(enabled_thematic_blocks) ==
    IF Truthy(enabled_thematic_blocks)
    THEN PyList(SplitStripUpper(enabled_thematic_blocks.s))
    ELSE None

\* A tool that hands the list it parsed to the client
ToolBlocksPassed_Parsed(enabled_thematic_blocks) ==
    thematic_blocks_list(enabled_thematic_blocks)

\* What the tool hands to the client as enabled_thematic_blocks:
\* thematic_blocks_list is computed and then not used
ToolBlocksPassed(enabled_thematic_blocks) == PyList(<<"INSTRUCTION">>)

AddStepText(r, phase_id, step_name) ==
    IF r.ret.success
    THEN IF IdentifierRaises(r.ret)
         THEN Tool(r, Raise("AttributeError"))
         ELSE Tool(r, Return([text |-> "Successfully added step",
                              step_name |-> step_name, phase_id |-> phase_id,
                              step_id |-> Identifier(r.ret),
                              blocks_str |-> "INSTRUCTION"]))
    ELSE Tool(r, Return(FailureText("Failed to add step to phase", r.ret)))

tool_add_step_to_phase(tok, phase_id, step_name, step_description, ordering_number, enabled_thematic_blocks, authResp, resp) ==
    IF OrderingInvalid(ordering_number)
    THEN OrderingError(tok, ordering_number)
    ELSE AddStepText(
            add_step_to_phase(tok, phase_id, step_name, step_description,
                              ConvertOrdering(ordering_number),
                              ToolBlocksPassed(enabled_thematic_blocks), authResp, resp),
            phase_id, step_name)

FLOW_TYPES == {"CORE", "HEAD", "GENERIC", "FORM"}

\* "if flow_type and flow_type not in [...]"
FlowTypeRejected(flow_type) == flow_type # "" /\ flow_type \notin FLOW_TYPES

FlowTypeError(tok, flow_type) ==
    Ran(tok,
        Return([text |-> "Error: flow_type must be one of CORE, HEAD, GENERIC, FORM, got",
                got |-> flow_type]),
        <<>>)

\* The flow id read from a success response: the try block never lets an
\* exception out
ExtractFlowId(flow_data) ==
    IF flow_data.type = "list" /\ Len(flow_data.items) > 0
    THEN IF HasGet(flow_data.items[1])
         THEN DictGet(flow_data.items[1], "identifier", PyStr("Unknown"))
         ELSE PyStr("Unknown")
    ELSE IF flow_data.type = "dict"
    THEN DictGet(flow_data, "identifier", PyStr("Unknown"))
    ELSE PyStr("Unknown")

CreateFlowText(r, flow_name, flow_project_id, flow_type) ==
    IF r.ret.success
    THEN Tool(r, Return([text |-> "Successfully created flow", flow_name |-> flow_name,
                         flow_id |-> ExtractFlowId(ResultGet(r.ret, "data", EmptyDict)),
                         flow_type |-> flow_type, project_id |-> flow_project_id]))
    ELSE Tool(r, Return(FailureText("Failed to create flow", r.ret)))

tool_create_flow(tok, flow_name, flow_project_id, flow_type, description, category_id, flow_family_id, family_custom_code, reference, authResp, resp) ==
    IF FlowTypeRejected(flow_type)
    THEN FlowTypeError(tok, flow_type)
    ELSE CreateFlowText(
            create_flow(tok, flow_name, flow_project_id, flow_type, description,
                        category_id, flow_family_id, family_custom_code, reference,
                        authResp, resp),
            flow_name, flow_project_id, flow_type)

UpdateStepText(r, step_id) ==
    IF r.ret.success
    THEN Tool(r, Return([text |-> "Successfully updated text for step",
                         step_id |-> step_id]))
    ELSE Tool(r, Return(FailureText("Failed to update step text", r.ret)))

tool_update_step_text(tok, step_id, text_content, authResp, resp) ==
    UpdateStepText(update_step_text(tok, step_id, text_content, authResp, resp), step_id)

----------------------------------------------------------------------------
(* Inputs: what the server may answer and what callers may pass *)

Tokens == {PyStr("tok1"), PyStr("tok2")}

Item == PyDict([identifier |-> PyStr("id1"), name |-> PyStr("N"),
                managementProperties |-> PyDict([isEnabled |-> PyBool(TRUE)])])

AuthBodies == {EmptyBody, NullBody, EmptyObjBody, TokenBody(None), TokenBody(PyStr(""))}
              \cup {TokenBody(t) : t \in Tokens}
AuthResponses == {TransportError} \cup {Http(st, b) : st \in {200, 201, 401}, b \in AuthBodies}

ListBodies == {EmptyBody, EmptyListBody, EmptyObjBody, DataBody(None),
               DataBody(PyList(<<>>)), DataBody(PyList(<<Item>>)),
               DataBody(PyList(<<PyStr("x")>>))}
ListResponses == {TransportError}
                 \cup {Http(st, b) : st \in {200, 204, 304, 401, 404, 500}, b \in ListBodies}

MutBodies == {EmptyBody, NullBody, IdListBody, IdBody, MessageBody}
MutResponses == {TransportError}
                \cup {Http(st, b) : st \in {200, 201, 204, 401, 422}, b \in MutBodies}

Descriptions == {None, PyStr("desc")}
Orderings == {None, PyInt(0), PyInt(MaxOrdering), PyInt(2 * MaxOrdering)}
ToolOrderings == {None, PyInt(MaxOrdering), PyStr(ToString(MaxOrdering)), PyStr("abc")}
ToolFlags == {PyBool(FALSE), PyBool(TRUE), PyStr("True")}
BlockLists == {None, PyList(<<>>), PyList(<<"INSTRUCTION">>), PyList(<<"CHECKLIST", "FORM">>),
               PyList(<<"BOGUS">>), PyList(<<"INSTRUCTION", "BOGUS">>)}
ToolBlocks == {None, PyStr(""), PyStr("INSTRUCTION"), PyStr("checklist, form"), PyStr("BOGUS")}
FlowTypeArgs == {"GENERIC", "CORE", "", "BOGUS"}
Optionals == {None, PyStr("opt")}

----------------------------------------------------------------------------
(* State machine: one call at a time, each run to completion *)

NoCall == [layer |-> "none", op |-> "none"]
NoOutcome == [kind |-> "none"]

Init ==
    /\ access_token = None
    /\ pc = "idle"
    /\ call = NoCall
    /\ token_before = None
    /\ sent = <<>>
    /\ outcome = NoOutcome

\* A client method ran to completion
Completed(op, args, r) ==
    /\ access_token' = r.access_token
    /\ pc' = "done"
    /\ call' = [layer |-> "api", op |-> op, args |-> args]
    /\ token_before' = access_token
    /\ sent' = r.sent
    /\ outcome' = Return(r.ret)

\* A tool ran to completion, or raised
ToolCompleted(op, args, r) ==
    /\ access_token' = r.access_token
    /\ pc' = "done"
    /\ call' = [layer |-> "tool", op |-> op, args |-> args]
    /\ token_before' = access_token
    /\ sent' = r.sent
    /\ outcome' = r.ret

\* get_headers called on its own: it reads the session and assigns nothing
Call_get_headers ==
    /\ pc = "idle"
    /\ Completed("get_headers", <<>>, Ran(access_token, get_headers(access_token), <<>>))

Call_authenticate ==
    /\ pc = "idle"
    /\ \E resp \in AuthResponses :
          Completed("authenticate", <<>>, authenticate(access_token, resp))

Call_get_flows ==
    /\ pc = "idle"
    /\ \E authResp \in AuthResponses, resp \in ListResponses :
          Completed("get_flows", <<>>, get_flows(access_token, authResp, resp))

Call_get_flow_phases ==
    /\ pc = "idle"
    /\ \E authResp \in AuthResponses, resp \in ListResponses :
          Completed("get_flow_phases", [flow_id |-> "flow1"],
                    get_flow_phases(access_token, "flow1", authResp, resp))

Call_add_phase_to_flow ==
    /\ pc = "idle"
    /\ \E d \in Descriptions, o \in Orderings, a \in BOOLEAN, c \in BOOLEAN,
          authResp \in AuthResponses, resp \in MutResponses :
          Completed("add_phase_to_flow",
                    [flow_id |-> "flow1", phase_name |-> "X", phase_description |-> d,
                     ordering_number |-> o, auto_advance |-> a, can_be_skipped |-> c],
                    add_phase_to_flow(access_token, "flow1", "X", d, o, a, c, authResp, resp))

Call_add_step_to_phase ==
    /\ pc = "idle"
    /\ \E d \in Descriptions, o \in Orderings, b \in BlockLists,
          authResp \in AuthResponses, resp \in MutResponses :
          Completed("add_step_to_phase",
                    [phase_id |-> "phase1", step_name |-> "S", step_description |-> d,
                     ordering_number |-> o, enabled_thematic_blocks |-> b],
                    add_step_to_phase(access_token, "phase1", "S", d, o, b, authResp, resp))

Call_create_flow ==
    /\ pc = "idle"
    /\ \E t \in FlowTypeArgs, d \in Optionals, f \in Optionals, x \in Optionals,
          authResp \in AuthResponses, resp \in MutResponses :
          Completed("create_flow",
                    [flow_name |-> "F", project_id |-> project_id, flow_type |-> t,
                     description |-> d, category_id |-> x, family_id |-> f,
                     family_custom_code |-> x, reference |-> x],
                    create_flow(access_token, "F", project_id, t, d, x, f, x, x,
                                authResp, resp))

Call_update_step_text ==
    /\ pc = "idle"
    /\ \E text \in {"", "<p>hi</p>"}, authResp \in AuthResponses, resp \in MutResponses :
          Completed("update_step_text", [step_id |-> "step1", text_content |-> text],
                    update_step_text(access_token, "step1", text, authResp, resp))

Tool_authenticate ==
    /\ pc = "idle"
    /\ \E resp \in AuthResponses :
          ToolCompleted("authenticate", <<>>, tool_authenticate(access_token, resp))

Tool_get_flows ==
    /\ pc = "idle"
    /\ \E authResp \in AuthResponses, resp \in ListResponses :
          ToolCompleted("get_flows", <<>>, tool_get_flows(access_token, authResp, resp))

Tool_get_flow_phases ==
    /\ pc = "idle"
    /\ \E authResp \in AuthResponses, resp \in ListResponses :
          ToolCompleted("get_flow_phases", [flow_id |-> "flow1"],
                        tool_get_flow_phases(access_token, "flow1", authResp, resp))

Tool_add_phase_to_flow ==
    /\ pc = "idle"
    /\ \E d \in Descriptions, o \in ToolOrderings, a \in ToolFlags, c \in ToolFlags,
          authResp \in AuthResponses, resp \in MutResponses :
          ToolCompleted("add_phase_to_flow",
                        [flow_id |-> "flow1", phase_name |-> "X", phase_description |-> d,
                         ordering_number |-> o, auto_advance |-> a, can_be_skipped |-> c],
                        tool_add_phase_to_flow(access_token, "flow1", "X", d, o, a, c,
                                               authResp, resp))

Tool_add_step_to_phase ==
    /\ pc = "idle"
    /\ \E d \in Descriptions, o \in ToolOrderings, b \in ToolBlocks,
          authResp \in AuthResponses, resp \in MutResponses :
          ToolCompleted("add_step_to_phase",
                        [phase_id |-> "phase1", step_name |-> "S", step_description |-> d,
                         ordering_number |-> o, enabled_thematic_blocks |-> b],
                        tool_add_step_to_phase(access_token, "phase1", "S", d, o, b,
                                               authResp, resp))

Tool_create_flow ==
    /\ pc = "idle"
    /\ \E t \in FlowTypeArgs, d \in Optionals, f \in Optionals, x \in Optionals,
          authResp \in AuthResponses, resp \in MutResponses :
          ToolCompleted("create_flow",
                        [flow_name |-> "F", project_id |-> project_id, flow_type |-> t,
                         description |-> d, category_id |-> x, family_id |-> f,
                         family_custom_code |-> x, reference |-> x],
                        tool_create_flow(access_token, "F", project_id, t, d, x, f, x, x,
                                         authResp, resp))

Tool_update_step_text ==
    /\ pc = "idle"
    /\ \E text \in {"", "<p>hi</p>"}, authResp \in AuthResponses, resp \in MutResponses :
          ToolCompleted("update_step_text", [step_id |-> "step1", text_content |-> text],
                        tool_update_step_text(access_token, "step1", text, authResp, resp))

\* The result goes back to the caller; the client instance (and its token)
\* lives on for the next call
Respond ==
    /\ pc = "done"
    /\ pc' = "idle"
    /\ call' = NoCall
    /\ token_before' = access_token
    /\ sent' = <<>>
    /\ outcome' = NoOutcome
    /\ UNCHANGED access_token

Next ==
    \/ Call_get_headers
    \/ Call_authenticate
    \/ Call_get_flows
    \/ Call_get_flow_phases
    \/ Call_add_phase_to_flow
    \/ Call_add_step_to_phase
    \/ Call_create_flow
    \/ Call_update_step_text
    \/ Tool_authenticate
    \/ Tool_get_flows
    \/ Tool_get_flow_phases
    \/ Tool_add_phase_to_flow
    \/ Tool_add_step_to_phase
    \/ Tool_create_flow
    \/ Tool_update_step_text
    \/ Respond

Spec == Init /\ [][Next]_vars

----------------------------------------------------------------------------
(* Properties *)

ListOps == {"get_flows", "get_flow_phases"}
MutatingOps == {"add_phase_to_flow", "add_step_to_phase", "create_flow", "update_step_text"}
ResourceOps == ListOps \cup MutatingOps

\* A client method (not a tool) of the given set has just completed
ApiDone(ops) == pc = "done" /\ call.layer = "api" /\ call.op \in ops

IsAuth(req) == req.endpoint = "authenticate"
AuthCount == Cardinality({i \in DOMAIN sent : IsAuth(sent[i])})
PrimaryCount == Cardinality({i \in DOMAIN sent : ~IsAuth(sent[i])})

\* The response to the call's primary request, when one was sent
PrimarySent == sent # <<>> /\ ~IsAuth(sent[Len(sent)])
Primary == sent[Len(sent)]

\* C1: a resource operation started with no token sends exactly one
\* authenticate request, as its first request (so before the primary one), and
\* no call ever sends two authenticate requests.
C1_OneAuthenticateFirst ==
    pc = "done" =>
        /\ AuthCount <= 1
        /\ \A i \in DOMAIN sent : IsAuth(sent[i]) => i = 1
        /\ PrimaryCount <= 1
        /\ (call.layer = "api" /\ call.op \in ResourceOps /\ token_before = None)
              => (AuthCount = 1 /\ IsAuth(sent[1]))

C1_Witness ==
    /\ ApiDone({"add_phase_to_flow"})
    /\ token_before = None
    /\ Len(sent) = 2
    /\ IsAuth(sent[1])
    /\ sent[2].endpoint = "add-phases"

\* C2: add_step_to_phase with a thematic block outside the valid set returns
\* the invalid-argument failure naming the offending values and sends no
\* request at all, whatever the session state.
C2_InvalidBlocksNoNetwork ==
    (/\ ApiDone({"add_step_to_phase"})
     /\ InvalidBlocks(call.args.enabled_thematic_blocks) # <<>>)
    => /\ sent = <<>>
       /\ outcome.value =
            InvalidThematicBlocks(InvalidBlocks(call.args.enabled_thematic_blocks))

\* What authenticate does with a response, as the claims describe it
AuthRejected(resp) ==
    \/ resp.raised
    \/ resp.status_code # 200
    \/ JsonRaises(resp)

\* A non-empty token string is in the body
TokenInBody(resp) ==
    /\ ~resp.raised
    /\ ~JsonRaises(resp)
    /\ resp.body.json.type = "dict"
    /\ "accessToken" \in DOMAIN resp.body.json.d
    /\ resp.body.json.d["accessToken"].type = "str"

\* C3: authenticate returns false and leaves the token as it was on a non-200
\* status, a non-JSON body or a transport failure; the token changes only in
\* a call that returns true with a token taken from the body.  (Stated for
\* calls that start with no token or with a token the server issued.)
C3_TokenChangesOnlyWithToken ==
    (pc = "done" /\ AuthCount = 1 /\ token_before \in {None} \cup Tokens) =>
        /\ AuthRejected(sent[1].response) =>
              /\ access_token = token_before
              /\ (call.layer = "api" /\ call.op = "authenticate") => outcome.value = FALSE
        /\ access_token # token_before =>
              /\ ~AuthRejected(sent[1].response)
              /\ TokenInBody(sent[1].response)
              /\ access_token = sent[1].response.body.json.d["accessToken"]

\* The frame half of C3 alone, which the code satisfies: a rejected
\* authenticate attempt leaves the token as it was, and the token changes
\* only in a call whose authenticate attempt was answered 200 with a JSON
\* object.
AuthFailureLeavesToken ==
    pc = "done" =>
        /\ (AuthCount = 1 /\ AuthRejected(sent[1].response)) => access_token = token_before
        /\ access_token # token_before =>
              /\ AuthCount = 1
              /\ ~AuthRejected(sent[1].response)
              /\ sent[1].response.body.json.type = "dict"
              /\ access_token = DictGet(sent[1].response.body.json, "accessToken", None)

\* C4: the token is always absent or a non-empty string.
C4_TokenAbsentOrNonEmpty ==
    \/ access_token = None
    \/ access_token.type = "str" /\ access_token.s # ""

\* The result dict of a mutating client method that reports failure
MutatingFailure == ApiDone(MutatingOps) /\ ~outcome.value.success

CarriesDiagnostics(result) == {"request_url", "request_payload"} \subseteq DOMAIN result

StatusFailure ==
    /\ PrimarySent
    /\ ~Primary.response.raised
    /\ Primary.response.status_code \notin
            (IF call.op = "update_step_text" THEN {200, 201, 204} ELSE {200, 201})

C6_SuccessStatusIsSuccess ==
    (/\ ApiDone(MutatingOps)
     /\ PrimarySent
     /\ ~Primary.response.raised
     /\ Primary.response.status_code \in
            (IF call.op = "update_step_text" THEN {200, 201, 204} ELSE {200, 201}))
    => /\ outcome.value.success
       /\ outcome.value.data =
            IF JsonRaises(Primary.response) THEN EmptyDict ELSE Primary.response.body.json

\* C7: create_flow with a flow type outside CORE, HEAD, GENERIC, FORM (the
\* empty string included) sends no request and returns an invalid-argument
\* error, through the tool and on the client method alike.
C7_FlowTypeValidatedBeforeDispatch ==
    (/\ pc = "done"
     /\ call.op = "create_flow"
     /\ call.args.flow_type \notin FLOW_TYPES)
    => /\ sent = <<>>
       /\ access_token = token_before
       /\ call.layer = "api" => ~outcome.value.success
       /\ call.layer = "tool" => outcome = FlowTypeError(token_before, call.args.flow_type).ret

\* C8: every client method and every tool ends with a returned value, never
\* with an exception.
C8_NeverRaises == pc = "done" => outcome.kind = "return"

\* C9: with no token and a failed authenticate attempt, a resource operation
\* sends no primary request, a mutating operation returns the
\* authentication failure, a list operation returns the empty list, and the
\* token is still absent.
C9_AuthFailureShortCircuits ==
    (/\ ApiDone(ResourceOps)
     /\ token_before = None
     /\ AuthCount = 1
     /\ ~authenticate(token_before, sent[1].response).ret)
    => /\ Len(sent) = 1
       /\ access_token = None
       /\ call.op \in MutatingOps => outcome.value = AuthenticationFailed
       /\ call.op \in ListOps => outcome.value = PyList(<<>>)

C9_Witness ==
    /\ ApiDone({"update_step_text"})
    /\ token_before = None
    /\ Len(sent) = 1
    /\ sent[1].response.raised
    /\ outcome.value = AuthenticationFailed

\* The upstream answered with a JSON object whose data is an empty array or
\* that has no data key
EmptyUpstream(resp) ==
    /\ ~resp.raised
    /\ ~JsonRaises(resp)
    /\ resp.body.json.type = "dict"
    /\ \/ "data" \notin DOMAIN resp.body.json.d
       \/ resp.body.json.d["data"] = PyList(<<>>)

\* The cases of C10, with the set of statuses that count as failed
ListFailure(failed(_)) ==
    \/ ~PrimarySent
    \/ Primary.response.raised
    \/ failed(Primary.response.status_code)
    \/ JsonRaises(Primary.response)
    \/ EmptyUpstream(Primary.response)

Non2xx(st) == st < 200 \/ st > 299
Is4xx5xx(st) == st >= 400 /\ st < 600

Bearer(tok) == "Bearer " \o tok.s

\* C11: every primary request of a resource operation carries
\* "Authorization: Bearer <token>" with the token the session holds, which is
\* the one the last successful authenticate stored; no primary request goes
\* out without an Authorization header.
C11_PrimaryCarriesBearer ==
    (pc = "done" /\ PrimarySent) =>
        /\ "Authorization" \in DOMAIN Primary.headers
        /\ access_token.type = "str"
        /\ Primary.headers["Authorization"] = Bearer(access_token)

\* The part of C11 the code satisfies: a primary request sent while the
\* session holds a non-empty token carries that token as its bearer.
BearerWhenTokenHeld ==
    (pc = "done" /\ PrimarySent /\ Truthy(access_token)) =>
        /\ "Authorization" \in DOMAIN Primary.headers
        /\ Primary.headers["Authorization"] = Bearer(access_token)

\* The session holds a token: a non-empty string ("if self.access_token")
TokenSet(tok) == tok # None /\ tok # PyStr("")

\* The headers every request carries, from the configured server URL
BaseHeaders ==
    [accept |-> "application/json"]
    @@ ("Content-Type" :> "application/json")
    @@ ("User-Agent" :> "Mozilla/5.0")
    @@ [Host |-> "poc-ai.siteflow.co",
        Origin |-> "https://poc-ai.siteflow.co",
        Referer |-> "https://poc-ai.siteflow.co"]

\* C12: get_headers changes no session field and sends nothing; what it
\* returns is determined by the session alone (so two calls in the same
\* session state return the same mapping): accept, Content-Type, User-Agent,
\* Host, Origin and Referer always, and Authorization, with the value
\* "Bearer <access_token>", if and only if the session holds a token.
C12_GetHeadersPure ==
    ApiDone({"get_headers"}) =>
        /\ access_token = token_before
        /\ sent = <<>>
        /\ outcome.kind = "return"
        /\ DOMAIN BaseHeaders \subseteq DOMAIN outcome.value
        /\ \A h \in DOMAIN BaseHeaders : outcome.value[h] = BaseHeaders[h]
        /\ DOMAIN outcome.value \subseteq DOMAIN BaseHeaders \cup {"Authorization"}
        /\ ("Authorization" \in DOMAIN outcome.value) <=> TokenSet(token_before)
        /\ TokenSet(token_before) => outcome.value["Authorization"] = Bearer(token_before)

C12_Witness ==
    /\ ApiDone({"get_headers"})
    /\ token_before = PyStr("tok1")
    /\ access_token = PyStr("tok1")
    /\ Cardinality(DOMAIN outcome.value) = 7
    /\ outcome.value["Authorization"] = "Bearer tok1"

\* C13: a resource operation started with a cached token sends no
\* authenticate request and leaves the token as it was, whatever the server
\* answers, 401 included; its request carries the cached token, and a 401 is
\* an ordinary failure: the "API error: 401" result of a mutating operation,
\* the empty list of a list operation.  So every later operation sends the
\* same token again.
C13_CachedTokenNeverRefreshed ==
    (pc = "done" /\ call.op \in ResourceOps /\ TokenSet(token_before)) =>
        /\ AuthCount = 0
        /\ access_token = token_before
        /\ PrimarySent => Primary.headers["Authorization"] = Bearer(token_before)
        /\ (/\ call.layer = "api"
            /\ PrimarySent
            /\ ~Primary.response.raised
            /\ Primary.response.status_code = 401)
           => IF call.op \in MutatingOps
              THEN outcome.value =
                      ApiError(Primary.url, Primary.kwargs.json, Primary.response)
              ELSE outcome.value = PyList(<<>>)

C13_Witness ==
    /\ ApiDone({"add_phase_to_flow"})
    /\ token_before = PyStr("tok1")
    /\ Len(sent) = 1
    /\ ~Primary.response.raised
    /\ Primary.response.status_code = 401
    /\ Primary.headers["Authorization"] = "Bearer tok1"
    /\ access_token = PyStr("tok1")
    /\ outcome.value.error = "API error: 401"

\* The decimal numeral of a natural number, digit by digit
Digit(d) == <<"0", "1", "2", "3", "4", "5", "6", "7", "8", "9">>[d + 1]

RECURSIVE Decimal(_)
Decimal(n) == IF n < 10 THEN Digit(n) ELSE Decimal(n \div 10) \o Digit(n % 10)

\* The flags of usageProperties that are true
TrueFlags(auto_advance, can_be_skipped) ==
    (IF auto_advance THEN {"autoAdvance"} ELSE {})
    \cup (IF can_be_skipped THEN {"canBeSkipped"} ELSE {})

\* C14: the body add_phase_to_flow sends is {data: [phase]} with one phase:
\* name is the given name, managementProperties.isEnabled is true,
\* customOrderingNumber is there exactly when ordering_number is not None (0
\* included) and is its decimal string, usageProperties is there exactly when
\* auto_advance or can_be_skipped is true and holds only the true flags.
C14_PhaseBody ==
    (ApiDone({"add_phase_to_flow"}) /\ PrimarySent) =>
        LET body == Primary.kwargs.json
            phase == body.data[1]
            flags == TrueFlags(call.args.auto_advance, call.args.can_be_skipped)
        IN  /\ DOMAIN Primary.kwargs = {"json"}
            /\ DOMAIN body = {"data"}
            /\ Len(body.data) = 1
            /\ phase.name = call.args.phase_name
            /\ "isEnabled" \in DOMAIN phase.managementProperties
            /\ phase.managementProperties.isEnabled = TRUE
            /\ ("customOrderingNumber" \in DOMAIN phase)
                    <=> call.args.ordering_number # None
            /\ call.args.ordering_number # None =>
                    phase.customOrderingNumber = Decimal(call.args.ordering_number.n)
            /\ ("usageProperties" \in DOMAIN phase) <=> flags # {}
            /\ flags # {} =>
                    /\ DOMAIN phase.usageProperties = flags
                    /\ \A f \in flags : phase.usageProperties[f] = TRUE

C14_Witness ==
    /\ ApiDone({"add_phase_to_flow"})
    /\ PrimarySent
    /\ call.args.ordering_number = PyInt(0)
    /\ call.args.auto_advance
    /\ ~call.args.can_be_skipped
    /\ Primary.kwargs.json.data[1].customOrderingNumber = "0"
    /\ Primary.kwargs.json.data[1].usageProperties = [autoAdvance |-> TRUE]

\* The add_step_to_phase tool has just completed
StepToolDone == pc = "done" /\ call.layer = "tool" /\ call.op = "add_step_to_phase"

====
